---- MODULE Spec2Model ----
(***************************************************************************)
(* Model of analysis/common_crawl.py: filter_declining, the routine that   *)
(* de-normalizes Common Crawl statistics rows into one history per MIME    *)
(* type, smooths each history with a window-3 moving average, trims        *)
(* trailing zeros, and keeps the MIME types whose mean first difference    *)
(* over the last 12 smoothed points is negative.                           *)
(*                                                                         *)
(* Numbers.  The code works on Python floats.  The model uses exact        *)
(* integers: every percentage is a multiple of 3, so that the mean of a    *)
(* window of three values (sum divided by 3) is again an integer, and      *)
(* avg_increase, a mean of k differences, is kept as the fraction          *)
(* [num, den] = [sum of the differences, k].  Crawl identifiers are        *)
(* strings compared lexicographically in the code; the model uses          *)
(* naturals compared by <.  MIME type strings are compared through their   *)
(* position in MimeOrder, which lists them in Python's string order.       *)
(* The fields pages and urls of a row are never read by filter_declining   *)
(* and are left out.                                                       *)
(***************************************************************************)
EXTENDS Integers, Sequences, FiniteSets, TLC

\* ------------------------------------------------------------------ bounds
\* Longest per-MIME-type series of the table specifications.
MaxCrawls == 4
\* SpecSeries: longest free prefix / suffix around the constant run.
MaxEdge == 3
\* SpecSeries: longest constant run in the middle of a series.
MaxRun == 11
\* The percentages rows may carry (multiples of 3, see above).
Pcts == {0, 3}

\* ------------------------------------------------------- program constants
\* The MIME type labels, in Python string order ('<' sorts before letters).
MimeOrder == <<"<other>", "<unknown>", "application/pdf", "text/html">>
Mimes == {MimeOrder[i] : i \in 1..Len(MimeOrder)}
\* common_crawl.py:76, the under-specified labels
Sentinels == {"<unknown>", "<other>"}
\* common_crawl.py:89, the smoothing window
window_size == 3
\* common_crawl.py:97
num_crawls == 12

VARIABLES
    typed_stats,           \* the argument: a sequence of rows
    pc,                    \* position in filter_declining
    mime_sorted_stats,     \* line 72
    declining_mime_types,  \* the dict: MIME type -> list of {crawl: pct}
    mime_types,            \* line 82: the keys, in insertion order
    cursor,                \* index in mime_types of the current iteration
    window_averages,       \* line 90, popped by line 94
    avg_increase,          \* line 100, of the iteration that last got there
    mime_declines,         \* line 83 / 107 / 109
    error                  \* the exception that left the call, or "none"

vars == <<typed_stats, pc, mime_sorted_stats, declining_mime_types, mime_types,
          cursor, window_averages, avg_increase, mime_declines, error>>

\* --------------------------------------------------------------- helpers
Row(c, m, p) == [crawl |-> c, mimetype_detected |-> m, pct_pages_per_crawl |-> p]

MimeRank(m) == CHOOSE i \in 1..Len(MimeOrder) : MimeOrder[i] = m

\* Mutant of SortKeyLE: the sort key without the crawl.
SortKeyLE_MimeOnly(a, b) ==
    MimeRank(a.mimetype_detected) <= MimeRank(b.mimetype_detected)

\* Python's tuple comparison of the sort keys (mimetype_detected, crawl): a <= b.
SortKeyLE(a, b) ==
    \/ MimeRank(a.mimetype_detected) < MimeRank(b.mimetype_detected)
    \/ /\ a.mimetype_detected = b.mimetype_detected
       /\ a.crawl <= b.crawl

\* sorted(...) is stable: a row goes after every row already placed whose key
\* is <= its own, so rows with equal keys keep their input order.
InsertSorted(s, r) ==
    LET k == Cardinality({i \in 1..Len(s) : SortKeyLE(s[i], r)})
    IN  SubSeq(s, 1, k) \o <<r>> \o SubSeq(s, k + 1, Len(s))

\* Mutant of sorted: the rows are taken as they come.
unsorted(rows) == rows

RECURSIVE sorted(_)
sorted(rows) ==
    IF rows = <<>> THEN <<>>
    ELSE InsertSorted(sorted(SubSeq(rows, 1, Len(rows) - 1)), rows[Len(rows)])

\* The empty dict.
EmptyDict == [m \in {} |-> <<>>]

\* Mutant of AddRow: only '<unknown>' is skipped.
AddRowSkipUnknownOnly(d, row) ==
    LET m == row.mimetype_detected
        entry == (row.crawl :> row.pct_pages_per_crawl)
    IN  IF m = "<unknown>" THEN d
        ELSE IF m \in DOMAIN d.dict
             THEN [d EXCEPT !.dict[m] = Append(@, entry)]
             ELSE [dict |-> d.dict @@ (m :> <<entry>>),
                   keys |-> Append(d.keys, m)]

\* Lines 74-80, one row: skip the sentinels, else setdefault and append the
\* single-entry mapping {crawl: pct}.  d is [dict, keys]: the dict and its
\* keys in insertion order.
AddRow(d, row) ==
    LET m == row.mimetype_detected
        entry == (row.crawl :> row.pct_pages_per_crawl)
    IN  IF m \in Sentinels THEN d
        ELSE IF m \in DOMAIN d.dict
             THEN [d EXCEPT !.dict[m] = Append(@, entry)]
             ELSE [dict |-> d.dict @@ (m :> <<entry>>),
                   keys |-> Append(d.keys, m)]

RECURSIVE Denormalize(_)
Denormalize(rows) ==
    IF rows = <<>> THEN [dict |-> EmptyDict, keys |-> <<>>]
    ELSE AddRow(Denormalize(SubSeq(rows, 1, Len(rows) - 1)), rows[Len(rows)])

\* Line 88: list(stat.values())[0] for each stat.
StatValue(stat) == stat[CHOOSE c \in DOMAIN stat : TRUE]
stats_values(crawl_stats) == [i \in 1..Len(crawl_stats) |-> StatValue(crawl_stats[i])]

\* numpy's sliding_window_view(x, w) raises ValueError when w > len(x).
WindowTooLarge(xs, w) == Len(xs) < w
sliding_window_view(xs, w) ==
    [i \in 1..(Len(xs) - w + 1) |-> SubSeq(xs, i, i + w - 1)]

RECURSIVE Sum(_)
Sum(xs) == IF xs = <<>> THEN 0 ELSE xs[1] + Sum(Tail(xs))

\* Line 90: np.mean of a window of three percentages.
WindowMean(window) == Sum(window) \div Len(window)
WindowAverages(values) ==
    LET windows == sliding_window_view(values, window_size)
    IN  [i \in 1..Len(windows) |-> WindowMean(windows[i])]

\* Mutant of last_usage_percentages: no slice, every average counts.
whole_usage_percentages(averages) == averages

\* Line 98: window_averages[-num_crawls:].
LastN(xs, n) == SubSeq(xs, IF Len(xs) > n THEN Len(xs) - n + 1 ELSE 1, Len(xs))
last_usage_percentages(averages) == LastN(averages, num_crawls)

\* Line 99: pct[1] - pct[0] over the windows of two.
Diffs(xs) ==
    LET pairs == sliding_window_view(xs, 2)
    IN  [i \in 1..Len(pairs) |-> pairs[i][2] - pairs[i][1]]

\* Line 100: np.mean(diffs), as the fraction sum / count.
AvgIncrease(averages) ==
    LET diffs == Diffs(last_usage_percentages(averages))
    IN  [num |-> Sum(diffs), den |-> Len(diffs)]

\* Mutant of IsGrowing: a flat series is not deleted.
IsGrowingStrict(avg) == avg.num > 0

\* Mutant of IsGrowing: the test the wrong way round.
IsGrowingInverted(avg) == avg.num <= 0

\* Line 104: avg_increase >= 0.
IsGrowing(avg) == avg.num >= 0

\* del declining_mime_types[mime_type]
DelKey(d, m) == [k \in (DOMAIN d) \ {m} |-> d[k]]

\* Line 109: sorted(mime_declines, key=avg_increase), stable.
AvgLE(a, b) == a.num * b.den <= b.num * a.den
InsertDecline(s, r) ==
    LET k == Cardinality({i \in 1..Len(s) : AvgLE(s[i].avg_increase, r.avg_increase)})
    IN  SubSeq(s, 1, k) \o <<r>> \o SubSeq(s, k + 1, Len(s))
RECURSIVE SortDeclines(_)
SortDeclines(ds) ==
    IF ds = <<>> THEN <<>>
    ELSE InsertDecline(SortDeclines(SubSeq(ds, 1, Len(ds) - 1)), ds[Len(ds)])

NoAvg == [num |-> 0, den |-> 0]

\* Lines 93-94 run to their end: the list the while loop leaves, or <<>> when
\* it pops everything (the next test of window_averages[-1] then raises).
RECURSIVE TrimZeros(_)
TrimZeros(averages) ==
    IF averages = <<>> THEN <<>>
    ELSE IF averages[Len(averages)] = 0
         THEN TrimZeros(SubSeq(averages, 1, Len(averages) - 1))
         ELSE averages

\* Lines 86-107 for one MIME type: the exception raised, or the verdict.
MimeOutcome(history) ==
    LET values == stats_values(history)
    IN  IF WindowTooLarge(values, window_size) THEN "ValueError"
        ELSE LET trimmed == TrimZeros(WindowAverages(values))
             IN  IF trimmed = <<>> THEN "IndexError"
                 ELSE IF WindowTooLarge(last_usage_percentages(trimmed), 2)
                      THEN "ValueError"
                 ELSE IF IsGrowing(AvgIncrease(trimmed)) THEN "growing"
                 ELSE "declining"

\* Lines 85-114: the loop from key i on, then the return.
RECURSIVE RunLoop(_, _, _)
RunLoop(dict, keys, i) ==
    IF i > Len(keys) THEN [status |-> "returned", value |-> dict]
    ELSE LET outcome == MimeOutcome(dict[keys[i]])
         IN  IF outcome \in {"ValueError", "IndexError"}
             THEN [status |-> "raised", value |-> outcome]
             ELSE RunLoop(IF outcome = "growing" THEN DelKey(dict, keys[i]) ELSE dict,
                          keys, i + 1)

\* One whole call: what it returns or raises.
filter_declining(rows) ==
    LET d == Denormalize(sorted(rows))
    IN  RunLoop(d.dict, d.keys, 1)

\* --------------------------------------------------------------- actions
mime_type == mime_types[cursor]

\* Lines 68-83: sort, de-normalize, list the keys.
Group ==
    /\ pc = "start"
    /\ mime_sorted_stats' = sorted(typed_stats)
    /\ LET d == Denormalize(sorted(typed_stats))
       IN  /\ declining_mime_types' = d.dict
           /\ mime_types' = d.keys
    /\ mime_declines' = <<>>
    /\ cursor' = 0
    /\ pc' = "for"
    /\ UNCHANGED <<typed_stats, window_averages, avg_increase, error>>

\* Lines 85-90, a series of at least three points: the window averages.
Smooth ==
    /\ pc = "for"
    /\ cursor < Len(mime_types)
    /\ LET values == stats_values(declining_mime_types[mime_types[cursor + 1]])
       IN  /\ ~WindowTooLarge(values, window_size)
           /\ window_averages' = WindowAverages(values)
    /\ cursor' = cursor + 1
    /\ pc' = "while"
    /\ UNCHANGED <<typed_stats, mime_sorted_stats, declining_mime_types, mime_types,
                   avg_increase, mime_declines, error>>

\* Line 89 on fewer than three points: sliding_window_view raises ValueError.
SmoothRaise ==
    /\ pc = "for"
    /\ cursor < Len(mime_types)
    /\ WindowTooLarge(stats_values(declining_mime_types[mime_types[cursor + 1]]),
                      window_size)
    /\ cursor' = cursor + 1
    /\ pc' = "raised"
    /\ error' = "ValueError"
    /\ UNCHANGED <<typed_stats, mime_sorted_stats, declining_mime_types, mime_types,
                   window_averages, avg_increase, mime_declines>>

\* Mutant of Pop: pop(0), the first average goes instead of the last.
PopFront ==
    /\ pc = "while"
    /\ window_averages # <<>>
    /\ window_averages[Len(window_averages)] = 0
    /\ window_averages' = Tail(window_averages)
    /\ UNCHANGED <<typed_stats, pc, mime_sorted_stats, declining_mime_types,
                   mime_types, cursor, avg_increase, mime_declines, error>>

\* Lines 93-94, one turn of the loop: the last average is 0., pop it.
Pop ==
    /\ pc = "while"
    /\ window_averages # <<>>
    /\ window_averages[Len(window_averages)] = 0
    /\ window_averages' = SubSeq(window_averages, 1, Len(window_averages) - 1)
    /\ UNCHANGED <<typed_stats, pc, mime_sorted_stats, declining_mime_types,
                   mime_types, cursor, avg_increase, mime_declines, error>>

\* Line 93 on the empty list: window_averages[-1] raises IndexError.
PopRaise ==
    /\ pc = "while"
    /\ window_averages = <<>>
    /\ pc' = "raised"
    /\ error' = "IndexError"
    /\ UNCHANGED <<typed_stats, mime_sorted_stats, declining_mime_types, mime_types,
                   cursor, window_averages, avg_increase, mime_declines>>

\* Line 99 on a single remaining average: sliding_window_view raises ValueError.
DiffsRaise ==
    /\ pc = "while"
    /\ window_averages # <<>>
    /\ window_averages[Len(window_averages)] # 0
    /\ WindowTooLarge(last_usage_percentages(window_averages), 2)
    /\ pc' = "raised"
    /\ error' = "ValueError"
    /\ UNCHANGED <<typed_stats, mime_sorted_stats, declining_mime_types, mime_types,
                   cursor, window_averages, avg_increase, mime_declines>>

\* Lines 96-107: the loop is left, the average difference decides.
Classify ==
    /\ pc = "while"
    /\ window_averages # <<>>
    /\ window_averages[Len(window_averages)] # 0
    /\ ~WindowTooLarge(last_usage_percentages(window_averages), 2)
    /\ LET avg == AvgIncrease(window_averages)
       IN  /\ avg_increase' = avg
           /\ IF IsGrowing(avg)
              THEN /\ declining_mime_types' = DelKey(declining_mime_types, mime_type)
                   /\ UNCHANGED mime_declines
              ELSE /\ mime_declines' =
                          Append(mime_declines,
                                 [mime_type |-> mime_type, avg_increase |-> avg])
                   /\ UNCHANGED declining_mime_types
    /\ pc' = "for"
    /\ UNCHANGED <<typed_stats, mime_sorted_stats, mime_types, cursor,
                   window_averages, error>>

\* Lines 109-114: the loop is over; sort the summary, return the dict.
Return ==
    /\ pc = "for"
    /\ cursor = Len(mime_types)
    /\ mime_declines' = SortDeclines(mime_declines)
    /\ pc' = "returned"
    /\ UNCHANGED <<typed_stats, mime_sorted_stats, declining_mime_types, mime_types,
                   cursor, window_averages, avg_increase, error>>

Next ==
    \/ Group
    \/ Smooth
    \/ SmoothRaise
    \/ Pop
    \/ PopRaise
    \/ DiffsRaise
    \/ Classify
    \/ Return

\* ----------------------------------------------------------------- inputs
\* All sequences over S of length at most n.
RECURSIVE SeqsUpTo(_, _)
SeqsUpTo(S, n) ==
    IF n = 0 THEN {<<>>}
    ELSE LET shorter == SeqsUpTo(S, n - 1)
         IN  shorter \cup {Append(s, x) : s \in {t \in shorter : Len(t) = n - 1}, x \in S}

\* The rows of one MIME type, one per crawl 1..Len(series), oldest first.
SeriesRows(m, series) == [c \in 1..Len(series) |-> Row(c, m, series[c])]

StartWith(rows) ==
    /\ typed_stats = rows
    /\ pc = "start"
    /\ mime_sorted_stats = <<>>
    /\ declining_mime_types = EmptyDict
    /\ mime_types = <<>>
    /\ cursor = 0
    /\ window_averages = <<>>
    /\ avg_increase = NoAvg
    /\ mime_declines = <<>>
    /\ error = "none"

\* Spec: the table as published, newest crawl first; in each crawl a row for
\* text/html and application/pdf while their series last, and a row for each
\* sentinel label the table carries.
RECURSIVE CrawlMajor(_, _, _, _)
CrawlMajor(c, html, pdf, labels) ==
    IF c = 0 THEN <<>>
    ELSE (IF "<unknown>" \in labels THEN <<Row(c, "<unknown>", 3)>> ELSE <<>>)
         \o (IF c <= Len(html) THEN <<Row(c, "text/html", html[c])>> ELSE <<>>)
         \o (IF "<other>" \in labels THEN <<Row(c, "<other>", 3)>> ELSE <<>>)
         \o (IF c <= Len(pdf) THEN <<Row(c, "application/pdf", pdf[c])>> ELSE <<>>)
         \o CrawlMajor(c - 1, html, pdf, labels)

Init ==
    \E html \in SeqsUpTo(Pcts, MaxCrawls), pdf \in SeqsUpTo(Pcts, MaxCrawls),
       labels \in SUBSET Sentinels :
        StartWith(CrawlMajor(MaxCrawls, html, pdf, labels))

Spec == Init /\ [][Next]_vars

\* SpecExtraRow: the rows of text/html, one per crawl and oldest first, and one
\* further row of any MIME type, crawl and percentage put anywhere among them.
InsertAt(rows, i, r) == SubSeq(rows, 1, i) \o <<r>> \o SubSeq(rows, i + 1, Len(rows))

InitExtraRow ==
    \E html \in SeqsUpTo(Pcts, MaxCrawls), m \in Mimes, c \in 1..MaxCrawls, p \in Pcts :
        \E i \in 0..Len(html) :
            StartWith(InsertAt(SeriesRows("text/html", html), i, Row(c, m, p)))

SpecExtraRow == InitExtraRow /\ [][Next]_vars

\* SpecSeries: one MIME type with a long history: a free prefix, a constant
\* run, a free suffix, one row per crawl and oldest first.
Repeat(x, n) == [i \in 1..n |-> x]

InitSeries ==
    \E pre \in SeqsUpTo(Pcts, MaxEdge), suf \in SeqsUpTo(Pcts, MaxEdge),
       x \in Pcts, n \in 0..MaxRun :
        StartWith(SeriesRows("text/html", pre \o Repeat(x, n) \o suf))

SpecSeries == InitSeries /\ [][Next]_vars


\* ------------------------------------------------------------- properties
\* What the properties below speak of, stated directly rather than as the code
\* computes it.
NonSentinel == Mimes \ Sentinels
RowsOf(m) == {i \in 1..Len(typed_stats) : typed_stats[i].mimetype_detected = m}
EntryCrawl(entry) == CHOOSE c \in DOMAIN entry : TRUE
EntryPct(entry) == entry[EntryCrawl(entry)]
\* (SubSeq makes TLC build the sequence once instead of on every access.)
Whole(xs) == SubSeq(xs, 1, Len(xs))
Pcts_of(history) == Whole([i \in 1..Len(history) |-> EntryPct(history[i])])
\* The window-3 averages of a series of n >= 3 values: n - 2 of them.
Smoothed(values) ==
    Whole([i \in 1..(Len(values) - 2) |->
              (values[i] + values[i + 1] + values[i + 2]) \div 3])
\* A series without its maximal run of trailing zeros.
LastNonZero(xs) ==
    LET nz == {i \in 1..Len(xs) : xs[i] # 0}
    IN  IF nz = {} THEN 0 ELSE CHOOSE i \in nz : \A j \in nz : j <= i
WithoutTrailingZeros(xs) == SubSeq(xs, 1, LastNonZero(xs))
\* The last min(12, n) points of a series of n points.
RecentTail(xs) ==
    LET k == IF Len(xs) < 12 THEN Len(xs) ELSE 12
    IN  Whole([i \in 1..k |-> xs[Len(xs) - k + i]])
TrendSeries(history) == RecentTail(WithoutTrailingZeros(Smoothed(Pcts_of(history))))
\* There is an average of differences: three raw points and two trimmed ones.
HasTrend(history) == Len(history) >= 3 /\ Len(TrendSeries(history)) >= 2
\* The differences of a series telescope: their sum is last - first.
TrendSum(history) ==
    LET t == TrendSeries(history) IN t[Len(t)] - t[1]
Terminal == pc \in {"returned", "raised"}
\* The history being worked on when the call is in, or was left from, the loop.
CurrentHistory == declining_mime_types[mime_types[cursor]]
\* No two rows of a (non-sentinel) MIME type and crawl differ in percentage.
NoConflictingRows ==
    \A i, j \in 1..Len(typed_stats) :
        /\ typed_stats[i].mimetype_detected = typed_stats[j].mimetype_detected
        /\ typed_stats[i].mimetype_detected \notin Sentinels
        /\ typed_stats[i].crawl = typed_stats[j].crawl
        => typed_stats[i].pct_pages_per_crawl = typed_stats[j].pct_pages_per_crawl
\* At most one row per (non-sentinel) MIME type and crawl.
UniqueRows ==
    \A i, j \in 1..Len(typed_stats) :
        /\ i # j
        /\ typed_stats[i].mimetype_detected = typed_stats[j].mimetype_detected
        /\ typed_stats[i].mimetype_detected \notin Sentinels
        => typed_stats[i].crawl # typed_stats[j].crawl

\* C1: every MIME type of the returned mapping has a negative average increase
\* when that is recomputed from its returned history (window-3 averages,
\* trailing zeros trimmed, last 12 points, mean of the differences); a type
\* whose average increase is >= 0, a constant series included, is no key.
C1_ReturnedKeysDecline ==
    pc = "returned" =>
        \A m \in DOMAIN declining_mime_types :
            /\ HasTrend(declining_mime_types[m])
            /\ TrendSum(declining_mime_types[m]) < 0

\* C1 witness: a call returned application/pdf as declining and left out
\* text/html, whose four rows all carry the same percentage.
C1_Witness ==
    /\ pc = "returned"
    /\ "application/pdf" \in DOMAIN declining_mime_types
    /\ "text/html" \notin DOMAIN declining_mime_types
    /\ Cardinality(RowsOf("text/html")) >= 4
    /\ \A i \in RowsOf("text/html") : typed_stats[i].pct_pages_per_crawl = 3

\* C2: '<unknown>' and '<other>' are never keys of the mapping, and their rows
\* put no entry into a returned history: each history holds exactly one entry
\* per input row of its own MIME type, with that row's crawl and percentage.
C2_NoSentinelKeys ==
    /\ DOMAIN declining_mime_types \cap Sentinels = {}
    /\ pc = "returned" =>
          \A m \in DOMAIN declining_mime_types :
              LET h == declining_mime_types[m]
              IN  /\ Len(h) = Cardinality(RowsOf(m))
                  /\ \A k \in 1..Len(h) :
                        \E i \in RowsOf(m) :
                            h[k] = (typed_stats[i].crawl :> typed_stats[i].pct_pages_per_crawl)

\* C2 witness: a call whose input holds rows of both sentinel labels returned a
\* mapping with a key.
C2_Witness ==
    /\ pc = "returned"
    /\ RowsOf("<unknown>") # {}
    /\ RowsOf("<other>") # {}
    /\ DOMAIN declining_mime_types # {}

\* What a call on rows would have to give back to agree with this call.
Observed ==
    [status |-> pc,
     value |-> IF pc = "returned" THEN declining_mime_types ELSE error]
Swap(rows, i) ==
    [k \in 1..Len(rows) |->
        IF k = i THEN rows[i + 1] ELSE IF k = i + 1 THEN rows[i] ELSE rows[k]]
Reverse(rows) == [k \in 1..Len(rows) |-> rows[Len(rows) + 1 - k]]
\* Rearrangements of the input: every exchange of two neighbours, and the
\* input back to front.
Rearrangements ==
    {Swap(typed_stats, i) : i \in 1..(Len(typed_stats) - 1)} \cup {Reverse(typed_stats)}

\* C3 as stated: a call on any rearrangement of the input, rows that share MIME
\* type and crawl but not percentage included, returns the same mapping.
C3_OrderIndependent ==
    pc = "returned" =>
        \A rows \in Rearrangements :
            filter_declining(rows).status = "returned"
                => filter_declining(rows).value = declining_mime_types

\* C3 amended: when no two rows of a MIME type and crawl carry different
\* percentages, a call on a rearrangement of the input ends as this call did:
\* it returns the same mapping, or raises the same exception.
C3_OrderIndependentUnlessConflict ==
    (Terminal /\ NoConflictingRows) =>
        \A rows \in Rearrangements : filter_declining(rows) = Observed

\* C3 witness: a call on rows that are not in sorted order (a row of an earlier
\* crawl follows a row of a later one) returned a mapping with a key.
C3_Witness ==
    /\ pc = "returned"
    /\ NoConflictingRows
    /\ DOMAIN declining_mime_types # {}
    /\ \E i \in 1..(Len(typed_stats) - 1) :
          /\ typed_stats[i].mimetype_detected = typed_stats[i + 1].mimetype_detected
          /\ typed_stats[i].crawl > typed_stats[i + 1].crawl

HistoryCrawls(history) == [i \in 1..Len(history) |-> EntryCrawl(history[i])]

\* C4 as stated: in every history built, no crawl occurs twice and the entries
\* are in ascending crawl order.
C4_UniqueSortedHistories ==
    \A m \in DOMAIN declining_mime_types :
        LET c == HistoryCrawls(declining_mime_types[m])
        IN  \A i \in 1..(Len(c) - 1) : c[i] < c[i + 1]

\* C4 amended: every history built is in ascending crawl order, entries of the
\* same crawl side by side; no crawl occurs twice when the input has at most
\* one row per MIME type and crawl.
C4_SortedHistories ==
    \A m \in DOMAIN declining_mime_types :
        LET c == HistoryCrawls(declining_mime_types[m])
        IN  \A i \in 1..(Len(c) - 1) :
                /\ c[i] <= c[i + 1]
                /\ UniqueRows => c[i] < c[i + 1]

\* C4 witness: the histories were built from rows that came out of crawl order,
\* and one holds at least four entries.
C4_Witness ==
    /\ pc # "start"
    /\ UniqueRows
    /\ \E m \in DOMAIN declining_mime_types : Len(declining_mime_types[m]) >= 4
    /\ \E i \in 1..(Len(typed_stats) - 1) :
          /\ typed_stats[i].mimetype_detected = typed_stats[i + 1].mimetype_detected
          /\ typed_stats[i].crawl > typed_stats[i + 1].crawl

\* C5: a MIME type with fewer than 3 raw points does not make the call crash:
\* the call is never left by an exception while it works on such a type.
C5_ShortSeriesSkipped ==
    pc = "raised" => Len(CurrentHistory) >= 3

\* C6: a MIME type whose window averages are all 0.0 does not make the call
\* crash: the call is never left by an exception while it works on such a type.
C6_AllZeroSeriesExcluded ==
    pc = "raised" =>
        ~(/\ Len(CurrentHistory) >= 3
          /\ \A i \in 1..(Len(CurrentHistory) - 2) :
                Smoothed(Pcts_of(CurrentHistory))[i] = 0)

\* C7: a MIME type with exactly one window average left after the trailing
\* zeros are trimmed does not make the call crash: the call is never left by
\* an exception while it works on such a type.
C7_SinglePointNotDeclining ==
    pc = "raised" =>
        ~(/\ Len(CurrentHistory) >= 3
          /\ Len(WithoutTrailingZeros(Smoothed(Pcts_of(CurrentHistory)))) = 1)

\* The full history of m: an entry per input row of m, in ascending crawl order
\* (the k-th entry is the row with the k-th smallest crawl; one row per crawl).
FullHistory(m) ==
    LET rows == RowsOf(m)
        Rank(i) == Cardinality({j \in rows : typed_stats[j].crawl <= typed_stats[i].crawl})
        AtRank(k) == CHOOSE i \in rows : Rank(i) = k
    IN  Whole([k \in 1..Cardinality(rows) |->
                  LET i == AtRank(k)
                  IN  (typed_stats[i].crawl :> typed_stats[i].pct_pages_per_crawl)])

\* C8: every non-sentinel MIME type with a negative average increase is a key
\* of the returned mapping, and its value is its full history: an entry per
\* input row, in ascending crawl order, zero percentages and entries older
\* than the last 12 window averages included.
C8_DecliningKeptWithFullHistory ==
    pc = "returned" =>
        \A m \in NonSentinel :
            LET history == FullHistory(m)
            IN  (/\ RowsOf(m) # {}
                 /\ HasTrend(history)
                 /\ TrendSum(history) < 0)
                => /\ m \in DOMAIN declining_mime_types
                   /\ declining_mime_types[m] = history

\* C8 witness: text/html is returned with a history of at least 15 entries, so
\* that its first entries lie before the last 12 window averages, and with an
\* entry of percentage 0.
C8_Witness ==
    /\ pc = "returned"
    /\ "text/html" \in DOMAIN declining_mime_types
    /\ Len(declining_mime_types["text/html"]) >= 15
    /\ \E k \in 1..Len(declining_mime_types["text/html"]) :
          EntryPct(declining_mime_types["text/html"][k]) = 0

\* A MIME type has been classified and nothing was done since.
JustClassified == pc \in {"for", "returned"} /\ cursor >= 1

\* C9: the average increase is the mean of the differences over the last
\* min(12, n) points of the trimmed window averages and of nothing else: their
\* sum is the last point minus the first of that tail, their number its length
\* minus one; the MIME type is kept exactly when that sum is negative.
C9_TrendOverLastTwelve ==
    JustClassified =>
        LET tail == RecentTail(window_averages)
        IN  /\ avg_increase.num = tail[Len(tail)] - tail[1]
            /\ avg_increase.den = Len(tail) - 1
            /\ (mime_type \in DOMAIN declining_mime_types)
                   <=> (tail[Len(tail)] < tail[1])

\* C9 witness: more than 12 trimmed window averages, the first one above the
\* last one, yet the type is not kept: the last 12 alone do not decline.
C9_Witness ==
    /\ pc = "returned"
    /\ cursor >= 1
    /\ Len(window_averages) > 12
    /\ window_averages[1] > window_averages[Len(window_averages)]
    /\ mime_type \notin DOMAIN declining_mime_types

\* The window averages, untrimmed, of the MIME type being worked on (of its full
\* history: the key itself is gone once the type is found to grow).
CurrentSmoothed == Smoothed(Pcts_of(FullHistory(mime_types[cursor])))
IsPrefixOf(xs, ys) == Len(xs) <= Len(ys) /\ xs = SubSeq(ys, 1, Len(xs))

\* C10: n >= 3 raw points give n - 2 window averages, and trimming removes
\* only zeros at the end of them: what is left is a prefix of the n - 2
\* averages, all that is gone is 0, and once the loop is left the last
\* average left is not 0 (so the whole run of trailing zeros is gone).
C10_TrimOnlyTrailingZeros ==
    (cursor >= 1 /\ pc \in {"while", "for", "returned"}) =>
        LET smoothed == CurrentSmoothed
        IN  /\ Len(smoothed) = Cardinality(RowsOf(mime_type)) - 2
            /\ IsPrefixOf(window_averages, smoothed)
            /\ \A i \in (Len(window_averages) + 1)..Len(smoothed) : smoothed[i] = 0
            /\ JustClassified =>
                  /\ window_averages = WithoutTrailingZeros(smoothed)
                  /\ window_averages[Len(window_averages)] # 0

\* C10 witness: a MIME type was classified on window averages whose trailing
\* zeros are gone and that keep a zero followed by a non-zero one.
C10_Witness ==
    /\ JustClassified
    /\ Len(CurrentSmoothed) > Len(window_averages)
    /\ \E i \in 1..(Len(window_averages) - 1) : window_averages[i] = 0
====
